---- MODULE Spec2Model ----
(***************************************************************************)
(* A model of youtube_scout.py: the search-and-enrichment pipeline         *)
(* (_search_worker, _yt_search, _yt_videos), the Tk handlers that start it *)
(* and receive its result (on_search, on_clear, _apply_search_results,     *)
(* _search_error) and the pure helpers they use.                           *)
(*                                                                         *)
(* Python strings that the code inspects character by character (query,    *)
(* titles, date entries, ISO-8601 durations, formatted numbers) are        *)
(* sequences of one-character strings.  Fields the pipeline only carries   *)
(* from a response to a row and never reads (thumbnail URL, publish        *)
(* timestamp) are left out of the records.                                 *)
(***************************************************************************)
EXTENDS Integers, Sequences, FiniteSets, TLC

\* ===================================================================
\* Python string primitives used by the code
\* ===================================================================

Digits == <<"0", "1", "2", "3", "4", "5", "6", "7", "8", "9">>

IsDigit(ch) == \E i \in 1..10 : Digits[i] = ch

DigitVal(ch) == (CHOOSE i \in 1..10 : Digits[i] = ch) - 1

UpperChars == <<"A","B","C","D","E","F","G","H","I","J","K","L","M",
                "N","O","P","Q","R","S","T","U","V","W","X","Y","Z">>

LowerChars == <<"a","b","c","d","e","f","g","h","i","j","k","l","m",
                "n","o","p","q","r","s","t","u","v","w","x","y","z">>

\* str.lower() on one character
LowerCh(ch) ==
    IF \E i \in 1..26 : UpperChars[i] = ch
    THEN LowerChars[CHOOSE i \in 1..26 : UpperChars[i] = ch]
    ELSE ch

\* str.lower()
Lower(s) == [i \in 1..Len(s) |-> LowerCh(s[i])]

IsSpace(ch) == ch = " "

\* str.strip()
RECURSIVE LStrip(_)
LStrip(s) == IF s # <<>> /\ IsSpace(Head(s)) THEN LStrip(Tail(s)) ELSE s

RECURSIVE RStrip(_)
RStrip(s) ==
    IF s # <<>> /\ IsSpace(s[Len(s)]) THEN RStrip(SubSeq(s, 1, Len(s) - 1)) ELSE s

Strip(s) == RStrip(LStrip(s))

\* str.split() with no argument: the maximal runs of non-whitespace
RECURSIVE SplitFrom(_, _, _)
SplitFrom(s, i, cur) ==
    IF i > Len(s)
    THEN IF cur = <<>> THEN <<>> ELSE <<cur>>
    ELSE IF IsSpace(s[i])
         THEN (IF cur = <<>> THEN <<>> ELSE <<cur>>) \o SplitFrom(s, i + 1, <<>>)
         ELSE SplitFrom(s, i + 1, Append(cur, s[i]))

Split(s) == SplitFrom(s, 1, <<>>)

\* a in b, for strings
Contains(b, a) ==
    \E k \in 0..(Len(b) - Len(a)) : SubSeq(b, k + 1, k + Len(a)) = a

\* str.startswith
StartsWith(s, p) == Len(s) >= Len(p) /\ SubSeq(s, 1, Len(p)) = p

\* str.replace(ch, "")
RemoveCh(s, ch) == SelectSeq(s, LAMBDA c : c # ch)

\* int(s) for a string of decimal digits
RECURSIVE StrToNat(_)
StrToNat(s) ==
    IF s = <<>> THEN 0
    ELSE 10 * StrToNat(SubSeq(s, 1, Len(s) - 1)) + DigitVal(s[Len(s)])

\* str(n) for n >= 0
RECURSIVE NatToStr(_)
NatToStr(n) ==
    IF n < 10 THEN <<Digits[n + 1]>>
    ELSE Append(NatToStr(n \div 10), Digits[(n % 10) + 1])

\* f"{n:02}"
Pad2(n) == IF n < 10 THEN <<"0">> \o NatToStr(n) ELSE NatToStr(n)

\* f"{n:03}" restricted to n < 1000, the three-digit groups of f"{n:,}"
Pad3(n) ==
    IF n < 10 THEN <<"0", "0">> \o NatToStr(n)
    ELSE IF n < 100 THEN <<"0">> \o NatToStr(n)
    ELSE NatToStr(n)

\* f"{n:,}"
RECURSIVE FormatComma(_)
FormatComma(n) ==
    IF n < 1000 THEN NatToStr(n)
    ELSE FormatComma(n \div 1000) \o <<",">> \o Pad3(n % 1000)

\* ===================================================================
\* Helper functions of the module (lines 93-149)
\* ===================================================================

\* the split of s at every occurrence of ch
RECURSIVE SplitOn(_, _, _, _)
SplitOn(s, ch, i, cur) ==
    IF i > Len(s) THEN <<cur>>
    ELSE IF s[i] = ch THEN <<cur>> \o SplitOn(s, ch, i + 1, <<>>)
    ELSE SplitOn(s, ch, i + 1, Append(cur, s[i]))

AllDigits(s) == \A i \in 1..Len(s) : IsDigit(s[i])

IsLeap(y) == (y % 4 = 0 /\ y % 100 # 0) \/ y % 400 = 0

DaysInMonth(y, m) ==
    IF m = 2 THEN (IF IsLeap(y) THEN 29 ELSE 28)
    ELSE IF m \in {4, 6, 9, 11} THEN 30 ELSE 31

\* datetime.strptime(s, "%Y-%m-%d") succeeds: %Y is four digits, %m and %d
\* are one or two digits naming a month 1..12 and a day of that month
StrptimeOk(s) ==
    LET p == SplitOn(s, "-", 1, <<>>) IN
    /\ Len(p) = 3
    /\ \A i \in 1..3 : p[i] # <<>> /\ AllDigits(p[i])
    /\ Len(p[1]) = 4
    /\ Len(p[2]) \in 1..2 /\ StrToNat(p[2]) \in 1..12
    /\ Len(p[3]) \in 1..2
    /\ StrToNat(p[1]) >= 1
    /\ StrToNat(p[3]) \in 1..DaysInMonth(StrToNat(p[1]), StrToNat(p[2]))

\* parse_iso_date: truthy iff the date parses (None on failure)
parse_iso_date(s) == StrptimeOk(s)

\* iso8601_duration_to_seconds: the scan of lines 113-125 from position i,
\* with the running total and the pending digit run num
RECURSIVE IsoScan(_, _, _, _)
IsoScan(iso, i, total, num) ==
    IF i > Len(iso) THEN total
    ELSE LET ch == iso[i] IN
         IF ch = "T" THEN IsoScan(iso, i + 1, total, num)
         ELSE IF IsDigit(ch) THEN IsoScan(iso, i + 1, total, Append(num, ch))
         ELSE IF ch = "H" THEN IsoScan(iso, i + 1, total + StrToNat(num) * 3600, <<>>)
         ELSE IF ch = "M" THEN IsoScan(iso, i + 1, total + StrToNat(num) * 60, <<>>)
         ELSE IF ch = "S" THEN IsoScan(iso, i + 1, total + StrToNat(num), <<>>)
         ELSE IsoScan(iso, i + 1, total, <<>>)

iso8601_duration_to_seconds(iso) == IsoScan(RemoveCh(iso, "P"), 1, 0, <<>>)

\* seconds_to_hms as it would be if it wrote the unit markers H, M and S
\* after its fields in place of the colons between them
seconds_to_hms_UnitMarked(sec) ==
    LET h == sec \div 3600
        m == (sec % 3600) \div 60
        s == sec % 60
    IN  IF h # 0
        THEN Pad2(h) \o <<"H">> \o Pad2(m) \o <<"M">> \o Pad2(s) \o <<"S">>
        ELSE Pad2(m) \o <<"M">> \o Pad2(s) \o <<"S">>

seconds_to_hms(sec) ==
    LET h == sec \div 3600
        m == (sec % 3600) \div 60
        s == sec % 60
    IN  IF h # 0
        THEN Pad2(h) \o <<":">> \o Pad2(m) \o <<":">> \o Pad2(s)
        ELSE Pad2(m) \o <<":">> \o Pad2(s)

\* duration_ok as it would be with 4 * 60 < seconds for the medium bucket
duration_ok_MediumOpen(filter_key, seconds) ==
    IF filter_key = "any" THEN TRUE
    ELSE IF filter_key = "short" THEN seconds < 4 * 60
    ELSE IF filter_key = "medium" THEN 4 * 60 < seconds /\ seconds <= 20 * 60
    ELSE IF filter_key = "long" THEN seconds > 20 * 60
    ELSE IF filter_key = "over1h" THEN seconds >= 60 * 60
    ELSE IF filter_key = "over3h" THEN seconds >= 3 * 60 * 60
    ELSE TRUE

duration_ok(filter_key, seconds) ==
    IF filter_key = "any" THEN TRUE
    ELSE IF filter_key = "short" THEN seconds < 4 * 60
    ELSE IF filter_key = "medium" THEN 4 * 60 <= seconds /\ seconds <= 20 * 60
    ELSE IF filter_key = "long" THEN seconds > 20 * 60
    ELSE IF filter_key = "over1h" THEN seconds >= 60 * 60
    ELSE IF filter_key = "over3h" THEN seconds >= 3 * 60 * 60
    ELSE TRUE

\* _title_matches (lines 421-429)
title_matches(query, title) ==
    IF query = <<>> \/ title = <<>> THEN FALSE
    ELSE LET q == Strip(Lower(query))
             t == Lower(title)
             tokens == Split(q)
         IN  IF tokens # <<>>
             THEN \A k \in 1..Len(tokens) : Contains(t, tokens[k])
             ELSE Contains(t, q)

\* ===================================================================
\* Configuration (lines 34-69)
\* ===================================================================

VIEW_THRESHOLDS ==
    << <<"Any", 0>>, <<"10K+", 10000>>, <<"50K+", 50000>>, <<"100K+", 100000>>,
       <<"250K+", 250000>>, <<"1M+", 1000000>>, <<"5M+", 5000000>>,
       <<"10M+", 10000000>>, <<"50M+", 50000000>>, <<"100M+", 100000000>> >>

DURATIONS ==
    << <<"Any", "any">>, <<"< 4 min (Short)", "short">>,
       <<"4-20 min (Medium)", "medium">>, <<"> 20 min (Long)", "long">>,
       <<">= 60 min", "over1h">>, <<">= 180 min", "over3h">> >>

\* next((v for l, v in table if l == label), default)
Lookup(table, label, default) ==
    IF \E i \in 1..Len(table) : table[i][1] = label
    THEN table[CHOOSE i \in 1..Len(table) :
                   /\ table[i][1] = label
                   /\ \A j \in 1..(i - 1) : table[j][1] # label][2]
    ELSE default

\* the batch size of the enrichment loop and of _yt_videos' ids[:50]
BatchSize == 50

\* Python's None for an identifier or a continuation token, and a field
\* that a JSON object does not hold
None == 0

Absent == -1

Min(a, b) == IF a <= b THEN a ELSE b

Max(a, b) == IF a >= b THEN a ELSE b

\* ===================================================================
\* The input widgets and _collect_options (lines 204-267, 384-414)
\* ===================================================================

\* the example text of the query entry, "e.g., python tutorial, ...",
\* cut after its second word
Placeholder == <<"e", ".", "g", ".", ",", " ", "p", "y">>

PlaceholderPrefix == <<"e", ".", "g", ".", ",", " ">>

\* the widgets as _build_controls leaves them
InitWidgets ==
    [entry_query |-> Placeholder,
     var_inc_videos |-> TRUE, var_inc_playlists |-> FALSE, var_inc_channels |-> FALSE,
     combo_views |-> "Any", combo_duration |-> "Any",
     entry_after |-> <<>>, entry_before |-> <<>>,
     pages_var |-> 5]

\* the ValueError of _collect_options, "" when it raises none
CollectError(w) ==
    LET q == Strip(w.entry_query)
        after == Strip(w.entry_after)
        before == Strip(w.entry_before)
    IN  IF q = <<>> \/ StartsWith(q, PlaceholderPrefix)
        THEN "Please enter a search query."
        ELSE IF after # <<>> /\ ~parse_iso_date(after)
        THEN "'Published After' must be YYYY-MM-DD"
        ELSE IF before # <<>> /\ ~parse_iso_date(before)
        THEN "'Published Before' must be YYYY-MM-DD"
        ELSE ""

\* the SearchOptions _collect_options returns
CollectOptions(w) ==
    [query |-> Strip(w.entry_query),
     include_videos |-> w.var_inc_videos,
     include_playlists |-> w.var_inc_playlists,
     include_channels |-> w.var_inc_channels,
     min_views_label |-> w.combo_views,
     min_views_value |-> Lookup(VIEW_THRESHOLDS, w.combo_views, 0),
     duration_label |-> w.combo_duration,
     duration_value |-> Lookup(DURATIONS, w.combo_duration, "any"),
     published_after |-> Strip(w.entry_after),
     published_before |-> Strip(w.entry_before),
     max_pages_per_type |-> Max(1, Min(10, w.pages_var))]

\* ===================================================================
\* The two endpoints: what a call can return
\* ===================================================================

\* Titles of search items.  The queries of the model are "py t" and
\* " py  T ": the first three titles match them, "Tu" lacks the token
\* "py", and the last title is empty.
TitleMatchA == <<"P", "y", " ", "T">>

TitleMatchB == <<"x", "P", "Y", "t", "u">>

TitleNoMatch == <<"T", "u">>

MixedTitles == <<TitleNoMatch, TitleMatchA, TitleMatchB, <<>> >>

\* Item number k of a result list.  A mixed list holds every kind of item
\* the ingestion loop distinguishes: every fifth item lacks the identifier
\* of the requested type, and the titles cycle through MixedTitles.
SearchItem(mixed, k) ==
    IF mixed
    THEN [id |-> IF k % 5 = 0 THEN None ELSE k,
          title |-> MixedTitles[(k % 4) + 1],
          channelTitle |-> <<"c", "h">>]
    ELSE [id |-> k, title |-> TitleMatchA, channelTitle |-> <<"c", "h">>]

\* the items of one page: n consecutive items from number first on
PageItems(slice) ==
    [j \in 1..slice.n |-> SearchItem(slice.mixed, slice.first + j - 1)]

\* the outcomes of one _yt_search call: it raises, or it returns one of the
\* pages with or without a continuation token
SearchResponses(slices, tokens) ==
    {[ok |-> FALSE, items |-> <<>>, nextPageToken |-> None]}
    \cup {[ok |-> TRUE, items |-> PageItems(sl), nextPageToken |-> tok] :
              sl \in slices, tok \in tokens}

ViewsTable == <<Absent, 5000, 50000>>

\* ISO-8601 durations; a resource whose number is a multiple of 7 has none
DurTable ==
    << <<>>,
       <<"P", "T", "3", "M", "5", "9", "S">>,
       <<"P", "T", "4", "M">>,
       <<"P", "T", "2", "0", "M">>,
       <<"P", "T", "2", "0", "M", "1", "S">>,
       <<"P", "T", "1", "H">>,
       <<"P", "T", "3", "H">> >>

\* the video resource the enrichment endpoint holds for identifier id
VideoResource(id) ==
    [id |-> id,
     viewCount |-> ViewsTable[(id % 3) + 1],
     likeCount |-> IF id % 2 = 0 THEN Absent ELSE 1200,
     commentCount |-> IF id % 2 = 0 THEN 3 ELSE Absent,
     hasDuration |-> id % 7 # 0,
     duration |-> DurTable[(id % 7) + 1],
     title |-> IF id % 2 = 0 THEN <<>> ELSE <<"P", "Y", " ", "T", "!">>,
     channelTitle |-> IF id % 3 = 0 THEN <<>> ELSE <<"C">>]

\* the resources a response holds for the identifiers asked for: all of
\* them ("full"), or all but those the endpoint does not know ("partial")
Known(variant, id) == variant = "full" \/ id % 4 # 1

ResourceItems(variant, ids) ==
    LET known == SelectSeq(ids, LAMBDA id : Known(variant, id))
    IN  [j \in 1..Len(known) |-> VideoResource(known[j])]

\* the outcomes of the videos call of _yt_videos: it raises, or it returns
EnrichResponses(variants, ids) ==
    {[ok |-> FALSE, items |-> <<>>]}
    \cup {[ok |-> TRUE, items |-> ResourceItems(v, ids)] : v \in variants}

\* ===================================================================
\* _yt_videos and _search_worker, between their network calls
\* ===================================================================

\* x or 0, for a JSON number that may be missing
IntOr0(x) == IF x = Absent THEN 0 ELSE x

\* _yt_videos: the identifiers of the request, ids[:50] (line 487)
YtVideosRequest(ids) == SubSeq(ids, 1, Min(BatchSize, Len(ids)))

\* _yt_videos: one by_id record (lines 517-530)
ByIdRecord(it) ==
    [viewCount |-> IntOr0(it.viewCount),
     likeCount |-> IntOr0(it.likeCount),
     commentCount |-> IntOr0(it.commentCount),
     durationSec |-> iso8601_duration_to_seconds(
                         IF it.hasDuration
                         THEN it.duration ELSE <<"P", "T", "0", "S">>),
     title |-> it.title,
     channelTitle |-> it.channelTitle]

\* _yt_videos: the by_id mapping of a response (lines 510-532); a later item
\* replaces an earlier one with the same identifier
ById(items) ==
    [vid \in {items[j].id : j \in 1..Len(items)} |->
        ByIdRecord(items[CHOOSE j \in 1..Len(items) :
                            /\ items[j].id = vid
                            /\ \A k \in (j + 1)..Len(items) : items[k].id # vid])]

\* dict.update
DictUpdate(d, e) ==
    [k \in (DOMAIN d) \cup (DOMAIN e) |-> IF k \in DOMAIN e THEN e[k] ELSE d[k]]

EmptyDict == [k \in {} |-> 0]

\* WantTypes as it would be with the categories appended in the opposite order
WantTypes_ChannelFirst(opts) ==
    (IF opts.include_channels THEN <<"channel">> ELSE <<>>)
    \o (IF opts.include_playlists THEN <<"playlist">> ELSE <<>>)
    \o (IF opts.include_videos THEN <<"video">> ELSE <<>>)

\* want_types (lines 569-575)
WantTypes(opts) ==
    (IF opts.include_videos THEN <<"video">> ELSE <<>>)
    \o (IF opts.include_playlists THEN <<"playlist">> ELSE <<>>)
    \o (IF opts.include_channels THEN <<"channel">> ELSE <<>>)

\* Retained as it would be if only video titles were matched against the query
Retained_VideoOnly(t, query, it) ==
    it.id # None /\ (t = "video" => title_matches(query, it.title))

\* the candidate the loop of lines 591-626 keeps for an item, or nothing
Retained(t, query, it) == it.id # None /\ title_matches(query, it.title)

Candidate(t, it) ==
    [kind |-> t, id |-> it.id, title |-> it.title,
     channel_title |-> IF t = "channel" THEN it.title ELSE it.channelTitle]

\* the candidates one page adds to total_items
Ingest(t, query, items) ==
    LET kept == SelectSeq(items, LAMBDA it : Retained(t, query, it))
    IN  [j \in 1..Len(kept) |-> Candidate(t, kept[j])]

\* VideoIds as it would be without the test x[0] == "video"
VideoIds_AllKinds(total_items) ==
    [j \in 1..Len(total_items) |-> total_items[j].id]

\* video_ids (line 634)
VideoIds(total_items) ==
    LET vids == SelectSeq(total_items, LAMBDA x : x.kind = "video")
    IN  [j \in 1..Len(vids) |-> vids[j].id]

\* MetaOf as it would be if a video without record counted as having 10000
\* views
MetaOf_Default10000(details, id) ==
    IF id \in DOMAIN details THEN details[id]
    ELSE [viewCount |-> 10000, likeCount |-> 0, commentCount |-> 0, durationSec |-> 0,
          title |-> <<>>, channelTitle |-> <<>>]

\* details.get(obj_id, {}) followed by the .get(field, default) of its uses
MetaOf(details, id) ==
    IF id \in DOMAIN details THEN details[id]
    ELSE [viewCount |-> 0, likeCount |-> 0, commentCount |-> 0, durationSec |-> 0,
          title |-> <<>>, channelTitle |-> <<>>]

\* PassesFilters as it would be without the view floor of lines 653-654
PassesFilters_NoFloor(opts, meta) ==
    duration_ok(opts.duration_value, meta.durationSec)

\* the filters of lines 653-656
PassesFilters(opts, meta) ==
    /\ ~(opts.min_views_value # 0 /\ meta.viewCount < opts.min_views_value)
    /\ duration_ok(opts.duration_value, meta.durationSec)

\* Emitted as it would be with the filters applied to every kind of candidate
Emitted_FilterAll(opts, details, x) ==
    ~(opts.min_views_value # 0 /\ MetaOf(details, x.id).viewCount < opts.min_views_value)
    /\ duration_ok(opts.duration_value, MetaOf(details, x.id).durationSec)

\* whether step 4 emits a row for a candidate
Emitted(opts, details, x) ==
    x.kind # "video" \/ PassesFilters(opts, MetaOf(details, x.id))

UrlPrefix(kind) ==
    IF kind = "video" THEN "https://youtu.be/"
    ELSE IF kind = "playlist" THEN "https://www.youtube.com/playlist?list="
    ELSE "https://www.youtube.com/channel/"

\* the row of lines 641-675 for a candidate; run records the worker that
\* built the row and is no column of the table
RowOf(run, details, x) ==
    LET meta == MetaOf(details, x.id)
        video == x.kind = "video"
    IN  [title |-> IF video /\ meta.title # <<>> THEN meta.title ELSE x.title,
         channel |-> IF video /\ meta.channelTitle # <<>>
                     THEN meta.channelTitle ELSE x.channel_title,
         kind |-> x.kind,
         views |-> IF video THEN FormatComma(meta.viewCount) ELSE <<>>,
         likes |-> IF video THEN FormatComma(meta.likeCount) ELSE <<>>,
         comments |-> IF video THEN FormatComma(meta.commentCount) ELSE <<>>,
         duration |-> IF video THEN seconds_to_hms(meta.durationSec) ELSE <<>>,
         url |-> <<UrlPrefix(x.kind), x.id>>,
         run |-> run]

\* rows (lines 640-675)
BuildRows(run, opts, total_items, details) ==
    LET kept == SelectSeq(total_items, LAMBDA x : Emitted(opts, details, x))
    IN  [j \in 1..Len(kept) |-> RowOf(run, details, kept[j])]

\* ===================================================================
\* _sort_by (lines 890-918), for the column and order _apply_search_results
\* asks for: 'views', descending
\* ===================================================================

\* to_key for a numeric column
ToKeyNumeric(val) ==
    LET v == RemoveCh(IF val = <<>> THEN <<"0">> ELSE val, ",")
    IN  IF v # <<>> /\ AllDigits(v) THEN StrToNat(v) ELSE 0

MaxOf(S) == CHOOSE m \in S : \A x \in S : x <= m

\* data.sort(key=..., reverse=True) and the re-insertion of lines 911-915:
\* the rows with the largest key come first, in the order they stood in (the
\* sort is stable), and the other rows follow, sorted the same way
RECURSIVE SortByViewsDescending(_)
SortByViewsDescending(rows) ==
    IF rows = <<>> THEN <<>>
    ELSE LET m == MaxOf({ToKeyNumeric(rows[i].views) : i \in 1..Len(rows)})
         IN  SelectSeq(rows, LAMBDA x : ToKeyNumeric(x.views) = m)
             \o SortByViewsDescending(
                    SelectSeq(rows, LAMBDA x : ToKeyNumeric(x.views) # m))

\* ===================================================================
\* Bounds of the model
\* ===================================================================

\* searches started in one behaviour of the application
MaxRuns == 2

\* pages the search endpoint serves for one category of one search
MaxServerPages == 3

\* the longest duration, in seconds, the helpers are called with
MaxSeconds == 10801

\* ===================================================================
\* State
\* ===================================================================

VARIABLES
    API_KEY,        \* the module's API key (line 35)
    widgets,        \* the input widgets of _build_controls
    btn_search,     \* state of the Search button: "normal" or "disabled"
    tree,           \* the rows of the results table, top to bottom
    status,         \* text of the status bar
    progress,       \* whether the spinner runs
    runs,           \* the _search_worker threads started so far, in order
    after_queue,    \* callbacks scheduled with master.after(0, ...), in order
    helper_call,    \* the last call of a module-level helper and its result
    cleared         \* history: on_clear has run and on_search has not been
                    \* invoked since

vars == <<helper_call, cleared, API_KEY, widgets, btn_search, tree, status, progress, runs, after_queue>>

\* the locals of a _search_worker thread at its start (lines 566-583);
\* calls lists the network calls the thread has made, scheduled counts the
\* completion callbacks it has scheduled and delivered tells whether the
\* event loop has run one of them
NewRun(opts) ==
    [opts |-> opts, pc |-> "search", ti |-> 1, page_token |-> None, pages |-> 0,
     total_items |-> <<>>, video_ids |-> <<>>, details |-> EmptyDict, i |-> 0,
     rows |-> <<>>, result |-> "none", calls |-> <<>>, scheduled |-> 0,
     delivered |-> FALSE]

\* no helper has been called on its own
NoHelperCall == [fn |-> "none", seconds |-> 0, result |-> 0]

Init ==
    /\ helper_call = NoHelperCall
    /\ cleared = FALSE
    /\ API_KEY \in {"", "AIza"}
    /\ widgets = InitWidgets
    /\ btn_search = "normal"
    /\ tree = <<>>
    /\ status = "Ready"
    /\ progress = FALSE
    /\ runs = <<>>
    /\ after_queue = <<>>

\* ===================================================================
\* The worker thread: one step per network call
\* ===================================================================

\* lines 677-678: the rows are built and _apply_search_results is scheduled
Finished(r, run) ==
    [run EXCEPT !.pc = "done", !.result = "rows",
                !.rows = BuildRows(r, run.opts, run.total_items, run.details),
                !.scheduled = @ + 1]

\* Failed as it would be if the handler scheduled _search_error and the
\* worker went on with its loops
Failed_Continue(run) ==
    [run EXCEPT !.result = "error", !.scheduled = @ + 1]

\* lines 680-685: a call raised and _search_error is scheduled
Failed(run) ==
    [run EXCEPT !.pc = "done", !.result = "error", !.scheduled = @ + 1]

\* the callback a finished worker has handed to master.after
Callback(r, run) ==
    [cb |-> IF run.result = "rows" THEN "apply" ELSE "error",
     run |-> r, rows |-> run.rows]

\* what master.after has been given while the worker went from run to next
Scheduled(r, run, next) ==
    IF next.scheduled > run.scheduled THEN <<Callback(r, next)>> ELSE <<>>

\* lines 634-637 when the category loop has ended: the enrichment loop
\* starts, and is over at once when there is no video identifier
EnterEnrichment(r, run) ==
    LET e == [run EXCEPT !.pc = "enrich", !.video_ids = VideoIds(run.total_items),
                         !.details = EmptyDict, !.i = 0]
    IN  IF e.i < Len(e.video_ids) THEN e ELSE Finished(r, e)

\* AfterPage as it would be with pages > MAX_PAGES_PER_TYPE for the test of
\* line 630
AfterPage_OffByOne(r, run) ==
    IF run.page_token = None \/ run.pages > run.opts.max_pages_per_type
    THEN IF run.ti < Len(WantTypes(run.opts))
         THEN [run EXCEPT !.ti = @ + 1, !.page_token = None, !.pages = 0]
         ELSE EnterEnrichment(r, run)
    ELSE run

\* lines 628-631 and the for loop of line 581: after a page, the next page
\* of the category, the next category, or the end of the search phase
AfterPage(r, run) ==
    IF run.page_token = None \/ run.pages >= run.opts.max_pages_per_type
    THEN IF run.ti < Len(WantTypes(run.opts))
         THEN [run EXCEPT !.ti = @ + 1, !.page_token = None, !.pages = 0]
         ELSE EnterEnrichment(r, run)
    ELSE run

\* AfterSearchResponse as it would be if a failed search call were taken for
\* an empty last page
AfterSearchResponse_Swallow(r, run, resp) ==
    AfterPage(r,
        [run EXCEPT !.total_items =
                        @ \o Ingest(WantTypes(run.opts)[run.ti], run.opts.query,
                                    resp.items),
                    !.page_token = resp.nextPageToken,
                    !.pages = @ + 1])

\* the worker after a _yt_search call returned resp (lines 585-631)
AfterSearchResponse(r, run, resp) ==
    IF ~resp.ok THEN Failed(run)
    ELSE AfterPage(r,
            [run EXCEPT !.total_items =
                            @ \o Ingest(WantTypes(run.opts)[run.ti], run.opts.query,
                                        resp.items),
                        !.page_token = resp.nextPageToken,
                        !.pages = @ + 1])

\* one _yt_search call of worker r and what follows it up to the next call;
\* slices[p] are the pages the endpoint may return after p pages.  The
\* endpoint hands out a fresh token, and none on its last page.
SearchCall(r, slices) ==
    /\ r \in 1..Len(runs)
    /\ runs[r].pc = "search"
    /\ LET run == runs[r]
           tokens == {None} \cup (IF run.pages + 1 < MaxServerPages
                                  THEN {Len(run.calls) + 1} ELSE {})
       IN  \E resp \in SearchResponses(slices[run.pages], tokens) :
               LET call == [api |-> "search",
                            type |-> WantTypes(run.opts)[run.ti],
                            page_token |-> run.page_token, ids |-> <<>>,
                            ok |-> resp.ok, nextPageToken |-> resp.nextPageToken]
                   next == AfterSearchResponse(r, [run EXCEPT !.calls = Append(@, call)],
                                               resp)
               IN  /\ runs' = [runs EXCEPT ![r] = next]
                   /\ after_queue' = after_queue \o Scheduled(r, run, next)
    /\ UNCHANGED <<helper_call, cleared, API_KEY, widgets, btn_search, tree, status, progress>>

\* _yt_videos(ids): without identifiers it returns {} and calls nothing
\* (lines 482-483); otherwise the call raises or returns
YtVideosOutcomes(variants, ids) ==
    IF ids = <<>>
    THEN {[called |-> FALSE, ok |-> TRUE, items |-> <<>>]}
    ELSE {[called |-> TRUE, ok |-> o.ok, items |-> o.items] :
             o \in EnrichResponses(variants, YtVideosRequest(ids))}

\* Batch as it would be with video_ids[i : i + 49]
Batch_Short(video_ids, i) ==
    SubSeq(video_ids, i + 1, Min(i + BatchSize - 1, Len(video_ids)))

\* the slice video_ids[i : i + 50] of line 637
Batch(video_ids, i) == SubSeq(video_ids, i + 1, Min(i + BatchSize, Len(video_ids)))

\* AfterEnrichResponse as it would be if a failed batch were skipped and its
\* videos left without a record
AfterEnrichResponse_ZeroFill(r, run, out) ==
    LET got == [run EXCEPT !.details = IF out.ok THEN DictUpdate(@, ById(out.items))
                                        ELSE @,
                           !.i = @ + BatchSize]
    IN  IF got.i < Len(got.video_ids) THEN got ELSE Finished(r, got)

\* the worker after _yt_videos ended with out (lines 636-637)
AfterEnrichResponse(r, run, out) ==
    IF ~out.ok THEN Failed(run)
    ELSE LET got == [run EXCEPT !.details = DictUpdate(@, ById(out.items)),
                                !.i = @ + BatchSize]
         IN  IF got.i < Len(got.video_ids) THEN got ELSE Finished(r, got)

\* one pass of the enrichment loop of worker r
EnrichCall(r, variants) ==
    /\ r \in 1..Len(runs)
    /\ runs[r].pc = "enrich"
    /\ LET run == runs[r]
           batch == Batch(run.video_ids, run.i)
       IN  \E out \in YtVideosOutcomes(variants, batch) :
               LET call == [api |-> "videos", type |-> "video", page_token |-> None,
                            ids |-> YtVideosRequest(batch),
                            ok |-> out.ok, nextPageToken |-> None]
                   next == AfterEnrichResponse(r,
                               [run EXCEPT !.calls = IF out.called THEN Append(@, call)
                                                     ELSE @],
                               out)
               IN  /\ runs' = [runs EXCEPT ![r] = next]
                   /\ after_queue' = after_queue \o Scheduled(r, run, next)
    /\ UNCHANGED <<helper_call, cleared, API_KEY, widgets, btn_search, tree, status, progress>>

\* ===================================================================
\* The UI thread
\* ===================================================================

\* _set_controls_enabled (lines 746-749)
ControlState(enabled) == IF enabled THEN "normal" ELSE "disabled"

\* on_search (lines 535-563); starts bounds the searches of a behaviour
on_search(starts) ==
    /\ cleared' = FALSE
    /\ IF API_KEY = ""
       THEN UNCHANGED <<helper_call, API_KEY, widgets, btn_search, tree, status,
                        progress, runs, after_queue>>
       ELSE IF ~(widgets.var_inc_videos \/ widgets.var_inc_playlists
                 \/ widgets.var_inc_channels)
       THEN UNCHANGED <<helper_call, API_KEY, widgets, btn_search, tree, status,
                        progress, runs, after_queue>>
       ELSE IF CollectError(widgets) # ""
       THEN /\ status' = CollectError(widgets)
            /\ UNCHANGED <<helper_call, API_KEY, widgets, btn_search, tree,
                           progress, runs, after_queue>>
       ELSE /\ Len(runs) < starts
            /\ btn_search' = ControlState(FALSE)
            /\ tree' = <<>>
            /\ status' = "Searching"
            /\ progress' = TRUE
            /\ runs' = Append(runs, NewRun(CollectOptions(widgets)))
            /\ UNCHANGED <<helper_call, API_KEY, widgets, after_queue>>

\* a click on the Search button (line 273); a disabled button ignores it
SearchButton(starts) ==
    /\ btn_search = "normal"
    /\ on_search(starts)

\* the <Return> key, bound on the window to on_search (line 371)
ReturnKey(starts) == on_search(starts)

\* on_clear (lines 836-861)
on_clear ==
    /\ widgets' = [widgets EXCEPT !.entry_query = <<>>,
                                  !.combo_views = "Any",
                                  !.combo_duration = "Any",
                                  !.entry_after = <<>>,
                                  !.entry_before = <<>>,
                                  !.var_inc_videos = TRUE,
                                  !.var_inc_playlists = TRUE,
                                  !.var_inc_channels = FALSE]
    /\ tree' = <<>>
    /\ cleared' = TRUE
    /\ UNCHANGED <<helper_call, API_KEY, btn_search, status, progress, runs,
                   after_queue>>

\* the user fills in the input widgets
UserEdit(presets) ==
    /\ \E w \in presets : widgets' = w
    /\ UNCHANGED <<helper_call, cleared, API_KEY, btn_search, tree, status, progress, runs, after_queue>>

\* apply_search_results as it would be without the call
\* _set_controls_enabled(True) of line 717
apply_search_results_StaysDisabled ==
    /\ after_queue # <<>>
    /\ Head(after_queue).cb = "apply"
    /\ LET cb == Head(after_queue)
       IN  /\ tree' = IF cb.rows # <<>>
                      THEN SortByViewsDescending(tree \o cb.rows)
                      ELSE tree
           /\ status' = IF cb.rows = <<>> THEN "No results matched your filters."
                        ELSE "Rows"
           /\ runs' = [runs EXCEPT ![cb.run].delivered = TRUE]
    /\ progress' = FALSE
    /\ after_queue' = Tail(after_queue)
    /\ UNCHANGED <<helper_call, cleared, API_KEY, widgets, btn_search>>

\* the event loop runs the oldest callback: _apply_search_results
\* (lines 688-717)
apply_search_results ==
    /\ after_queue # <<>>
    /\ Head(after_queue).cb = "apply"
    /\ LET cb == Head(after_queue)
       IN  /\ tree' = IF cb.rows # <<>>
                      THEN SortByViewsDescending(tree \o cb.rows)
                      ELSE tree
           /\ status' = IF cb.rows = <<>> THEN "No results matched your filters."
                        ELSE "Rows"
           /\ runs' = [runs EXCEPT ![cb.run].delivered = TRUE]
    /\ progress' = FALSE
    /\ btn_search' = ControlState(TRUE)
    /\ after_queue' = Tail(after_queue)
    /\ UNCHANGED <<helper_call, cleared, API_KEY, widgets>>

\* the event loop runs the oldest callback: _search_error (lines 720-743)
search_error ==
    /\ after_queue # <<>>
    /\ Head(after_queue).cb = "error"
    /\ runs' = [runs EXCEPT ![Head(after_queue).run].delivered = TRUE]
    /\ progress' = FALSE
    /\ btn_search' = ControlState(TRUE)
    /\ status' = "Search failed"
    /\ after_queue' = Tail(after_queue)
    /\ UNCHANGED <<helper_call, cleared, API_KEY, widgets, tree>>

\* ===================================================================
\* Inputs of the model and its specifications
\* ===================================================================

QueryText == <<"p", "y", " ", "t">>

\* the same tokens in other case, with spaces around and two between them
QueryPadded == <<" ", "P", "y", " ", " ", "T", " ">>

W(q, v, p, c, views, dur, after, pages) ==
    [entry_query |-> q,
     var_inc_videos |-> v, var_inc_playlists |-> p, var_inc_channels |-> c,
     combo_views |-> views, combo_duration |-> dur,
     entry_after |-> after, entry_before |-> <<>>,
     pages_var |-> pages]

DateGood == <<"2", "0", "2", "4", "-", "0", "1", "-", "0", "5">>

DateShort == <<"2", "0", "2", "4", "-", "1", "-", "5">>

DateBad == <<"2", "0", "2", "4", "-", "0", "2", "-", "3", "0">>

\* what the user enters in the application as a whole: a search for videos
\* and playlists
AppPresets ==
    { W(QueryText, TRUE, TRUE, FALSE, "Any", "Any", DateGood, 1) }

\* what the user may enter around the one search of the validation
\* specification: a search for videos, and the inputs on_search refuses or
\* should refuse (no category, impossible date, date not zero-padded)
ValidationPresets ==
    { W(QueryText, TRUE, FALSE, FALSE, "Any", "Any", <<>>, 1),
      W(QueryText, FALSE, FALSE, FALSE, "Any", "Any", <<>>, 1),
      W(QueryText, TRUE, FALSE, FALSE, "Any", "Any", DateBad, 1),
      W(QueryText, TRUE, FALSE, FALSE, "Any", "Any", DateShort, 1),
      W(<<" ">>, TRUE, FALSE, FALSE, "Any", "Any", <<>>, 1) }

\* the pages the search endpoint returns in the application as a whole: items
\* 2 and 3, whose titles match; as videos, 2 has 50000 views and 3 has none
AppSlices == [pages \in 0..MaxServerPages |-> {[first |-> 2, n |-> 2, mixed |-> FALSE]}]

AppVariants == {"full"}

\* what the user may enter before the one search of the pipeline
\* specification: every duration bucket, two view floors, every category
PipelinePresets ==
    { W(QueryText, TRUE, FALSE, FALSE, "10K+", "Any", <<>>, 1),
      W(QueryText, TRUE, FALSE, FALSE, "Any", "< 4 min (Short)", <<>>, 5),
      W(QueryText, TRUE, FALSE, FALSE, "Any", "4-20 min (Medium)", <<>>, 2),
      W(QueryText, TRUE, FALSE, FALSE, "50K+", ">= 60 min", <<>>, 5),
      W(QueryText, TRUE, TRUE, TRUE, "10K+", "> 20 min (Long)", <<>>, 1),
      W(QueryText, FALSE, TRUE, FALSE, "50K+", ">= 180 min", <<>>, 5),
      W(QueryText, FALSE, TRUE, TRUE, "Any", "Any", <<>>, 2),
      W(QueryPadded, TRUE, TRUE, FALSE, "Any", "Any", <<>>, 1) }

\* the pages the search endpoint may return as page number pages + 1 of a
\* category: none, two or ten mixed items, or the next 50 or 20 items of a
\* result list whose items all match
PipelineSlices ==
    [pages \in 0..MaxServerPages |->
        { [first |-> 1, n |-> 0, mixed |-> TRUE],
          [first |-> 1, n |-> 2, mixed |-> TRUE],
          [first |-> 1, n |-> 10, mixed |-> TRUE],
          [first |-> 50 * pages + 1, n |-> 50, mixed |-> FALSE],
          [first |-> 50 * pages + 1, n |-> 20, mixed |-> FALSE] }]

PipelineVariants == {"full", "partial"}

\* the application: any number of edits, searches (by button or key),
\* clears, worker steps and callbacks, in any order
Next ==
    \/ UserEdit(AppPresets)
    \/ SearchButton(MaxRuns)
    \/ ReturnKey(MaxRuns)
    \/ on_clear
    \/ \E r \in 1..Len(runs) : SearchCall(r, AppSlices)
    \/ \E r \in 1..Len(runs) : EnrichCall(r, AppVariants)
    \/ apply_search_results
    \/ search_error

Spec == Init /\ [][Next]_vars

\* the pipeline: the user fills in the widgets and starts one search,
\* which runs to its callback against the richer endpoints
NextPipeline ==
    \/ (runs = <<>> /\ UserEdit(PipelinePresets))
    \/ (runs = <<>> /\ SearchButton(MaxRuns))
    \/ (runs = <<>> /\ ReturnKey(MaxRuns))
    \/ \E r \in 1..Len(runs) : SearchCall(r, PipelineSlices)
    \/ \E r \in 1..Len(runs) : EnrichCall(r, PipelineVariants)
    \/ apply_search_results
    \/ search_error

SpecPipeline == Init /\ [][NextPipeline]_vars

\* input validation: edits, clears and searches in any order, of which one
\* search starts a worker, against the endpoints of the application as a
\* whole
NextValidation ==
    \/ UserEdit(ValidationPresets)
    \/ SearchButton(IF runs = <<>> THEN MaxRuns ELSE Len(runs))
    \/ ReturnKey(IF runs = <<>> THEN MaxRuns ELSE Len(runs))
    \/ on_clear
    \/ \E r \in 1..Len(runs) : SearchCall(r, AppSlices)
    \/ \E r \in 1..Len(runs) : EnrichCall(r, AppVariants)
    \/ apply_search_results
    \/ search_error

SpecValidation == Init /\ [][NextValidation]_vars

\* the application under the scheduling the claims about progress assume:
\* a worker thread that can make its next call makes it, the call returns
\* or fails within REQUEST_TIMEOUT, and the event loop runs the callbacks
\* handed to master.after
Fairness ==
    /\ WF_vars(\E r \in 1..Len(runs) : SearchCall(r, AppSlices))
    /\ WF_vars(\E r \in 1..Len(runs) : EnrichCall(r, AppVariants))
    /\ WF_vars(apply_search_results)
    /\ WF_vars(search_error)

\* searches by button and by key, their workers and callbacks; the widgets
\* are filled in before the first search.  Clears and later edits are left
\* out: they touch neither the workers, the callbacks nor the Search button.
NextLive ==
    \/ (runs = <<>> /\ UserEdit(AppPresets))
    \/ SearchButton(MaxRuns)
    \/ ReturnKey(MaxRuns)
    \/ \E r \in 1..Len(runs) : SearchCall(r, AppSlices)
    \/ \E r \in 1..Len(runs) : EnrichCall(r, AppVariants)
    \/ apply_search_results
    \/ search_error

SpecLive == Init /\ [][NextLive]_vars /\ Fairness

\* the helpers on their own: a duration is chosen, and duration_ok is
\* called with it for every filter key, or the duration is formatted by
\* seconds_to_hms and the string handed to iso8601_duration_to_seconds
FilterKeys == {DURATIONS[i][2] : i \in 1..Len(DURATIONS)}

InitHelpers ==
    /\ helper_call \in {[fn |-> "input", seconds |-> d, result |-> 0] :
                            d \in 0..MaxSeconds}
    /\ cleared = FALSE
    /\ API_KEY = ""
    /\ widgets = InitWidgets
    /\ btn_search = "normal"
    /\ tree = <<>>
    /\ status = "Ready"
    /\ progress = FALSE
    /\ runs = <<>>
    /\ after_queue = <<>>

CallDurationOk ==
    /\ helper_call.fn = "input"
    /\ helper_call' = [helper_call EXCEPT
                           !.fn = "duration_ok",
                           !.result = [k \in FilterKeys |->
                                          duration_ok(k, helper_call.seconds)]]
    /\ UNCHANGED <<cleared, API_KEY, widgets, btn_search, tree, status, progress,
                   runs, after_queue>>

CallDecodeOfEncode ==
    /\ helper_call.fn = "input"
    /\ helper_call' = [helper_call EXCEPT
                           !.fn = "decode_encode",
                           !.result = iso8601_duration_to_seconds(
                                          seconds_to_hms(helper_call.seconds))]
    /\ UNCHANGED <<cleared, API_KEY, widgets, btn_search, tree, status, progress,
                   runs, after_queue>>

NextHelpers ==
    \/ CallDurationOk
    \/ CallDecodeOfEncode

SpecHelpers == InitHelpers /\ [][NextHelpers]_vars

\* ===================================================================
\* Properties
\* ===================================================================

RunIds == 1..Len(runs)

\* a worker is in flight from its start until its callback has run
InFlight(r) == ~runs[r].delivered

\* the positions of after_queue that hold a callback of worker r
QueuedFor(r) == {i \in 1..Len(after_queue) : after_queue[i].run = r}

\* C1: at most one pipeline run is in flight at any time: while a worker's
\* callback has not run, no user action starts a second worker.
C1_AtMostOneRunInFlight ==
    \A r1, r2 \in RunIds : (InFlight(r1) /\ InFlight(r2)) => r1 = r2

\* C3: every worker schedules exactly one completion callback, when it ends:
\* none while it runs, one when it is done, either _apply_search_results
\* with its rows or _search_error, and that callback is queued or has run,
\* never both and never twice.
C3_ExactlyOneCallback ==
    \A r \in RunIds :
        LET run == runs[r] IN
        /\ run.scheduled = (IF run.pc = "done" THEN 1 ELSE 0)
        /\ Cardinality(QueuedFor(r)) + (IF run.delivered THEN 1 ELSE 0) = run.scheduled
        /\ run.pc = "done" => run.result \in {"rows", "error"}
        /\ \A i \in QueuedFor(r) :
               /\ after_queue[i].cb = "apply" <=> run.result = "rows"
               /\ after_queue[i].cb = "error" <=> run.result = "error"
               /\ after_queue[i].rows = run.rows
        /\ run.result = "error" => run.rows = <<>>

\* C3 witness: one worker has delivered rows and another has delivered an
\* error
C3_Witness ==
    \E r1, r2 \in RunIds :
        /\ runs[r1].delivered /\ runs[r1].result = "rows" /\ runs[r1].rows # <<>>
        /\ runs[r2].delivered /\ runs[r2].result = "error"

\* the search calls a worker made for category t, and its enrichment calls
SearchCallsOf(run, t) ==
    SelectSeq(run.calls, LAMBDA c : c.api = "search" /\ c.type = t)

VideoCallsOf(run) == SelectSeq(run.calls, LAMBDA c : c.api = "videos")

\* the positions of the calls of a worker that failed
FailedCalls(run) == {k \in 1..Len(run.calls) : ~run.calls[k].ok}

\* the rows of the table that worker r built
TreeRowsOf(r) == {i \in 1..Len(tree) : tree[i].run = r}

\* C2: when a search or enrichment call of a run fails, the run stops there:
\* the failed call is its last call, _search_error is scheduled and is the
\* run's only callback, once it has run the status reads "Search failed",
\* and no row of the run is in the results table.
C2_FailureAbortsRun ==
    \A r \in RunIds :
        LET run == runs[r] IN
        \A k \in FailedCalls(run) :
            /\ k = Len(run.calls)
            /\ run.pc = "done"
            /\ run.result = "error"
            /\ run.delivered \/ \E i \in QueuedFor(r) : after_queue[i].cb = "error"
            /\ \A i \in QueuedFor(r) : after_queue[i].cb # "apply"
            /\ run.delivered => status = "Search failed"
            /\ TreeRowsOf(r) = {}

\* C2 witness: an enrichment batch failed after an earlier batch and the
\* searches before it had succeeded and retained candidates, and the error
\* callback has run
C2_Witness ==
    \E r \in RunIds :
        LET run == runs[r]
            V == VideoCallsOf(run)
        IN  /\ Len(V) >= 2
            /\ V[1].ok
            /\ ~V[Len(V)].ok
            /\ run.total_items # <<>>
            /\ run.delivered
            /\ tree = <<>>

\* whether the search phase of a worker is over for category t
CategoryDone(run, t) ==
    \/ run.pc \in {"enrich", "done"}
    \/ \E j \in 1..(run.ti - 1) : WantTypes(run.opts)[j] = t

\* C4: in a run where no call fails, the search calls made for a category
\* number the smallest k >= 1 such that page k returned no continuation
\* token or k is the page cap; the first call carries no token and each
\* later call carries the token the page before it returned.
C4_PaginationCount ==
    \A r \in RunIds :
        LET run == runs[r]
            cap == run.opts.max_pages_per_type
        IN  FailedCalls(run) = {} =>
            \A j \in 1..Len(WantTypes(run.opts)) :
                LET t == WantTypes(run.opts)[j]
                    S == SearchCallsOf(run, t)
                IN  CategoryDone(run, t) =>
                    /\ Len(S) >= 1
                    /\ S[Len(S)].nextPageToken = None \/ Len(S) = cap
                    /\ \A k \in 1..(Len(S) - 1) :
                           S[k].nextPageToken # None /\ k # cap
                    /\ S[1].page_token = None
                    /\ \A k \in 2..Len(S) : S[k].page_token = S[k - 1].nextPageToken

\* C4 witness: with page cap 5, page 1 of the videos returned a token and
\* page 2 none, and the run ended with exactly 2 video search calls
C4_Witness ==
    \E r \in RunIds :
        LET run == runs[r]
            S == SearchCallsOf(run, "video")
        IN  /\ run.opts.max_pages_per_type = 5
            /\ run.result = "rows"
            /\ Len(S) = 2
            /\ S[1].nextPageToken # None
            /\ S[2].nextPageToken = None

\* the identifiers of the video candidates a worker retained, in order
RetainedVideoIds(run) ==
    LET v == SelectSeq(run.total_items, LAMBDA x : x.kind = "video")
    IN  [j \in 1..Len(v) |-> v[j].id]

\* C5: the enrichment calls of a run go over consecutive slices of the list
\* of retained video identifiers: call k carries entries 50(k-1)+1 .. 50k of
\* the list (fewer if the list ends), so at most 50 and at least one; no
\* call is made before the search phase is over; and a run that ends with
\* rows has made exactly ceil(n/50) calls for its n identifiers, every one
\* but the last with exactly 50, so that every entry of the list is sent in
\* exactly one call.
C5_BatchedEnrichment ==
    \A r \in RunIds :
        LET run == runs[r]
            V == VideoCallsOf(run)
            ids == RetainedVideoIds(run)
            n == Len(ids)
        IN  /\ run.pc = "search" => V = <<>>
            /\ \A k \in 1..Len(V) :
                   /\ V[k].ids = SubSeq(ids, 50 * (k - 1) + 1, Min(50 * k, n))
                   /\ Len(V[k].ids) \in 1..50
            /\ run.result = "rows" =>
                   /\ Len(V) = (n + 49) \div 50
                   /\ \A k \in 1..(Len(V) - 1) : Len(V[k].ids) = 50

\* C5 witness: 120 retained identifiers were sent in calls of 50, 50 and 20
C5_Witness ==
    \E r \in RunIds :
        LET V == VideoCallsOf(runs[r])
        IN  /\ runs[r].result = "rows"
            /\ Len(RetainedVideoIds(runs[r])) = 120
            /\ Len(V) = 3
            /\ Len(V[1].ids) = 50 /\ Len(V[2].ids) = 50 /\ Len(V[3].ids) = 20

\* C6: an enrichment call is made only by a run that searched for videos and
\* retained a video candidate, and it carries at least one identifier;
\* _yt_videos with no identifier returns the empty mapping and calls nothing.
C6_NoEnrichmentWithoutVideos ==
    /\ \A r \in RunIds :
           \A k \in 1..Len(runs[r].calls) :
               runs[r].calls[k].api = "videos" =>
                   /\ runs[r].calls[k].ids # <<>>
                   /\ runs[r].opts.include_videos
                   /\ RetainedVideoIds(runs[r]) # <<>>
    /\ \A out \in YtVideosOutcomes(PipelineVariants, <<>>) :
           ~out.called /\ out.ok /\ ById(out.items) = EmptyDict

\* C6 witness: a search for playlists only has delivered rows and has made
\* search calls and no enrichment call
C6_Witness ==
    \E r \in RunIds :
        /\ ~runs[r].opts.include_videos
        /\ runs[r].opts.include_playlists
        /\ runs[r].delivered
        /\ runs[r].rows # <<>>
        /\ tree # <<>>
        /\ VideoCallsOf(runs[r]) = <<>>

\* the statistics step 4 uses for a video candidate: those of its record,
\* and zero without a record
ViewsUsed(run, id) ==
    IF id \in DOMAIN run.details THEN run.details[id].viewCount ELSE 0

SecondsUsed(run, id) ==
    IF id \in DOMAIN run.details THEN run.details[id].durationSec ELSE 0

\* meets_view_floor and duration_in_bucket for a video candidate of a run
PassesBoth(run, id) ==
    /\ run.opts.min_views_value = 0 \/ ViewsUsed(run, id) >= run.opts.min_views_value
    /\ duration_ok(run.opts.duration_value, SecondsUsed(run, id))

\* C7: the video rows a run emits are, in order, its video candidates that
\* satisfy both facet filters on the statistics used for them: a candidate
\* that fails either has no row, every other has one, and the row shows the
\* view count the filter saw; the same holds of the video rows in the table.
C7_EmittedVideosPassFilters ==
    /\ \A r \in RunIds :
           LET run == runs[r]
               passing == SelectSeq(RetainedVideoIds(run),
                                    LAMBDA id : PassesBoth(run, id))
               vrows == SelectSeq(run.rows, LAMBDA row : row.kind = "video")
           IN  run.result = "rows" =>
                   /\ Len(vrows) = Len(passing)
                   /\ \A j \in 1..Len(vrows) :
                          /\ vrows[j].url = <<"https://youtu.be/", passing[j]>>
                          /\ ToKeyNumeric(vrows[j].views) = ViewsUsed(run, passing[j])
    /\ \A i \in 1..Len(tree) :
           tree[i].kind = "video" => PassesBoth(runs[tree[i].run], tree[i].url[2])

\* C7 witness: of two video candidates with 5000 and 50000 views under the
\* 10000 floor and bucket 'any', exactly the 50000-view row is in the table
C7_Witness ==
    \E r \in RunIds :
        LET run == runs[r] IN
        /\ run.opts.min_views_value = 10000
        /\ run.opts.duration_value = "any"
        /\ RetainedVideoIds(run) = <<1, 2>>
        /\ ViewsUsed(run, 1) = 5000
        /\ ViewsUsed(run, 2) = 50000
        /\ run.delivered
        /\ Len(tree) = 1
        /\ tree[1].url = <<"https://youtu.be/", 2>>
        /\ tree[1].views = <<"5", "0", ",", "0", "0", "0">>

\* C8: the playlist and channel rows a run emits are, in order and one for
\* one, its playlist and channel candidates, whatever the view floor and the
\* duration bucket, and their views, likes, comments and duration fields are
\* empty strings.
C8_PlaylistChannelPassThrough ==
    \A r \in RunIds :
        LET run == runs[r]
            cands == SelectSeq(run.total_items, LAMBDA x : x.kind # "video")
            orows == SelectSeq(run.rows, LAMBDA row : row.kind # "video")
        IN  run.result = "rows" =>
                /\ Len(orows) = Len(cands)
                /\ \A j \in 1..Len(orows) :
                       /\ orows[j].kind = cands[j].kind
                       /\ orows[j].url = <<UrlPrefix(cands[j].kind), cands[j].id>>
                       /\ orows[j].views = <<>>
                       /\ orows[j].likes = <<>>
                       /\ orows[j].comments = <<>>
                       /\ orows[j].duration = <<>>

\* C8 witness: under the 10K+ floor and the bucket 'long' a run emitted a
\* playlist row and a channel row and dropped a video candidate
C8_Witness ==
    \E r \in RunIds :
        LET run == runs[r] IN
        /\ run.opts.min_views_value = 10000
        /\ run.opts.duration_value = "long"
        /\ run.result = "rows"
        /\ \E i \in 1..Len(run.rows) : run.rows[i].kind = "playlist"
        /\ \E i \in 1..Len(run.rows) : run.rows[i].kind = "channel"
        /\ Len(RetainedVideoIds(run)) >
               Len(SelectSeq(run.rows, LAMBDA row : row.kind = "video"))

\* the zero-valued statistics of a video without an enrichment record
ZeroStats ==
    [viewCount |-> 0, likeCount |-> 0, commentCount |-> 0, durationSec |-> 0,
     title |-> <<>>, channelTitle |-> <<>>]

\* an enrichment batch of the run failed after an earlier batch succeeded
BatchFailedAfterSuccess(run) ==
    LET V == VideoCallsOf(run)
    IN  Len(V) >= 2 /\ V[1].ok /\ ~V[Len(V)].ok

\* C9 as stated: when an enrichment batch fails after earlier batches
\* succeeded, the videos of the failed batch are still emitted with
\* zero-valued statistics (where zero views and zero seconds pass the
\* filters of the run) and not dropped.
C9_FailedBatchStillEmitted ==
    \A r \in RunIds :
        LET run == runs[r]
            V == VideoCallsOf(run)
        IN  (BatchFailedAfterSuccess(run) /\ PassesFilters(run.opts, ZeroStats)) =>
                \A j \in 1..Len(V[Len(V)].ids) :
                    \E i \in 1..Len(run.rows) :
                        /\ run.rows[i].url = <<"https://youtu.be/", V[Len(V)].ids[j]>>
                        /\ run.rows[i].views = <<"0">>

\* C9 as amended: when an enrichment batch fails after earlier batches
\* succeeded, the run ends in failure: the failed batch is its last call,
\* _search_error is its callback, and it emits no row, neither for the
\* videos of the failed batch nor for those of the batches that succeeded.
C9_FailedBatchAbortsRun ==
    \A r \in RunIds :
        LET run == runs[r]
            V == VideoCallsOf(run)
        IN  BatchFailedAfterSuccess(run) =>
                /\ \A k \in 1..(Len(V) - 1) : V[k].ok
                /\ ~run.calls[Len(run.calls)].ok
                /\ Len(V) <= (Len(RetainedVideoIds(run)) + 49) \div 50
                /\ run.result = "error"
                /\ run.rows = <<>>
                /\ \A i \in QueuedFor(r) :
                       after_queue[i].cb = "error" /\ after_queue[i].rows = <<>>
                /\ TreeRowsOf(r) = {}

\* C9 witness: the third of three batches failed, records of the first two
\* had been merged, zero-valued statistics would pass the filters of the
\* run, and the error callback has run on an empty table
C9_Witness ==
    \E r \in RunIds :
        LET run == runs[r]
            V == VideoCallsOf(run)
        IN  /\ Len(V) = 3
            /\ BatchFailedAfterSuccess(run)
            /\ DOMAIN run.details # {}
            /\ PassesFilters(run.opts, ZeroStats)
            /\ run.delivered
            /\ tree = <<>>

\* the text has the form YYYY-MM-DD: four digits, two digits and two digits,
\* separated by hyphens
IsYYYYMMDD(s) ==
    /\ Len(s) = 10
    /\ s[5] = "-" /\ s[8] = "-"
    /\ \A i \in {1, 2, 3, 4, 6, 7, 9, 10} : IsDigit(s[i])

\* the inputs of C10: no API key, no category, an empty or placeholder
\* query, or a date bound that is not YYYY-MM-DD
InvalidInput ==
    \/ API_KEY = ""
    \/ ~(widgets.var_inc_videos \/ widgets.var_inc_playlists \/ widgets.var_inc_channels)
    \/ Strip(widgets.entry_query) = <<>>
    \/ StartsWith(Strip(widgets.entry_query), PlaceholderPrefix)
    \/ (Strip(widgets.entry_after) # <<>> /\ ~IsYYYYMMDD(Strip(widgets.entry_after)))
    \/ (Strip(widgets.entry_before) # <<>> /\ ~IsYYYYMMDD(Strip(widgets.entry_before)))

\* C10: a step of on_search taken on such an input starts no worker, makes
\* no network call, schedules nothing, and leaves the rows of the results
\* table and the state of the Search control as they were.
C10_InvalidInputStartsNothing ==
    [][(InvalidInput /\ on_search(MaxRuns)) =>
           /\ runs' = runs
           /\ after_queue' = after_queue
           /\ tree' = tree
           /\ btn_search' = btn_search]_vars

\* C11: the result set of a run is de-duplicated: no two rows a run emits
\* have the same category and the same URL, even when the search endpoint
\* returns an item on two pages of a category.
C11_NoDuplicateRows ==
    \A r \in RunIds :
        \A i, j \in 1..Len(runs[r].rows) :
            (runs[r].rows[i].kind = runs[r].rows[j].kind
             /\ runs[r].rows[i].url = runs[r].rows[j].url) => i = j

\* the place of a category in the fixed order video, playlist, channel
TypeRank(t) == IF t = "video" THEN 1 ELSE IF t = "playlist" THEN 2 ELSE 3

\* whether the options of a run select category t
Selected(opts, t) ==
    \/ (t = "video" /\ opts.include_videos)
    \/ (t = "playlist" /\ opts.include_playlists)
    \/ (t = "channel" /\ opts.include_channels)

\* C12: the network calls of a run are sequential and ordered: the search
\* calls come category by category in the order video, playlist, channel, for
\* selected categories only; every enrichment call comes after the last
\* search call; and a call is issued only when the call before it has
\* returned: it came back successfully, and a search call that follows a
\* search call of its category carries the token that call returned.
C12_CallsSequentialAndOrdered ==
    \A r \in RunIds :
        LET calls == runs[r].calls IN
        /\ \A k \in 1..Len(calls) :
               calls[k].api = "search" => Selected(runs[r].opts, calls[k].type)
        /\ \A k \in 1..(Len(calls) - 1) :
               /\ calls[k].ok
               /\ calls[k].api = "videos" => calls[k + 1].api = "videos"
               /\ (calls[k].api = "search" /\ calls[k + 1].api = "search") =>
                      /\ TypeRank(calls[k].type) <= TypeRank(calls[k + 1].type)
                      /\ calls[k].type = calls[k + 1].type =>
                             /\ calls[k].nextPageToken # None
                             /\ calls[k + 1].page_token = calls[k].nextPageToken
                      /\ calls[k].type # calls[k + 1].type =>
                             calls[k + 1].page_token = None

\* a run has searched the three categories and then enriched its videos
C12_Witness ==
    \E r \in RunIds :
        LET calls == runs[r].calls IN
        /\ runs[r].pc = "done"
        /\ \A t \in {"video", "playlist", "channel"} :
               \E k \in 1..Len(calls) : calls[k].api = "search" /\ calls[k].type = t
        /\ \E k \in 1..Len(calls) : calls[k].api = "videos"

\* the view count a row shows, as a number; a blank count is zero
NumericViews(row) ==
    IF row.views = <<>> THEN 0 ELSE StrToNat(RemoveCh(row.views, ","))

\* C13: after a successful run with at least one row, the rows of the table
\* are in non-increasing order of numeric view count, playlist and channel
\* rows counting as zero, and no playlist or channel row stands before a
\* video row.  (It holds while one run at a time is in flight; the
\* rows of two overlapping runs share the table.)
C13_SortedByViewsDescending ==
    [][(apply_search_results /\ Head(after_queue).rows # <<>>) =>
          \A i, j \in 1..Len(tree') :
              i < j => /\ NumericViews(tree'[i]) >= NumericViews(tree'[j])
                       /\ tree'[j].kind = "video" => tree'[i].kind = "video"]_vars

\* the non-empty whitespace-separated tokens of a query: its maximal runs of
\* characters other than the space
QueryTokens(q) ==
    {SubSeq(q, i, j) : <<i, j>> \in
        {ij \in (1..Len(q)) \X (1..Len(q)) :
            /\ ij[1] <= ij[2]
            /\ \A k \in ij[1]..ij[2] : q[k] # " "
            /\ (ij[1] = 1 \/ q[ij[1] - 1] = " ")
            /\ (ij[2] = Len(q) \/ q[ij[2] + 1] = " ")}}

\* tok occurs in title as a substring, letter case aside
OccursIgnoringCase(title, tok) ==
    \E o \in 0..(Len(title) - Len(tok)) :
        \A k \in 1..Len(tok) : LowerCh(title[o + k]) = LowerCh(tok[k])

\* C14: title matching is applied at ingestion to every category: every
\* candidate a run retains, of whichever category, has an identifier and a
\* non-empty search-result title that contains, letter case aside and as a
\* substring, every non-empty whitespace-separated token of the query.
C14_RetainedTitlesMatch ==
    \A r \in RunIds :
        \A n \in 1..Len(runs[r].total_items) :
            LET x == runs[r].total_items[n] IN
            /\ x.id # None
            /\ x.title # <<>>
            /\ \A tok \in QueryTokens(runs[r].opts.query) :
                   OccursIgnoringCase(x.title, tok)

\* a run was served, for each of its categories, ten items of which some
\* lack the identifier, some have an empty title and some a title without
\* the token "py", and has retained items 1, 2, 6 and 9 of each category
C14_Witness ==
    \E r \in RunIds :
        /\ runs[r].pc = "done"
        /\ runs[r].opts.include_videos /\ runs[r].opts.include_playlists
        /\ runs[r].opts.include_channels
        /\ [n \in 1..Len(runs[r].total_items) |-> runs[r].total_items[n].id]
               = <<1, 2, 6, 9, 1, 2, 6, 9, 1, 2, 6, 9>>

\* C15: duration_ok implements the bucket boundaries for every number of
\* seconds from 0 on: "any" always holds, "short" iff seconds < 240, "medium"
\* iff 240 <= seconds <= 1200, "long" iff seconds > 1200, "over1h" iff
\* seconds >= 3600, "over3h" iff seconds >= 10800, and exactly one of short,
\* medium and long holds.
C15_DurationBuckets ==
    helper_call.fn = "duration_ok" =>
        LET s == helper_call.seconds
            ok == helper_call.result
        IN  /\ ok["any"]
            /\ ok["short"] <=> s < 240
            /\ ok["medium"] <=> (240 <= s /\ s <= 1200)
            /\ ok["long"] <=> s > 1200
            /\ ok["over1h"] <=> s >= 3600
            /\ ok["over3h"] <=> s >= 10800
            /\ Cardinality({k \in {"short", "medium", "long"} : ok[k]}) = 1

\* duration_ok has been called with 3600 seconds, which are long and over
\* one hour and not over three
C15_Witness ==
    /\ helper_call.fn = "duration_ok"
    /\ helper_call.seconds = 3600
    /\ helper_call.result["long"] /\ helper_call.result["over1h"]
    /\ ~helper_call.result["over3h"] /\ ~helper_call.result["medium"]

\* C16, as stated: for every duration d >= 0, decoding the string the
\* encoder produces for d returns d:
\* iso8601_duration_to_seconds(seconds_to_hms(d)) = d.
C16_DecodeOfEncodeIsIdentity ==
    helper_call.fn = "decode_encode" => helper_call.result = helper_call.seconds

\* C16, amended: for every duration d >= 0, decoding the string the encoder
\* produces for d returns 0: the string mm:ss or hh:mm:ss holds no unit
\* marker, so no digit run of it is counted, and the result is d only for
\* d = 0.
C16_DecodeOfEncodeIsZero ==
    helper_call.fn = "decode_encode" => helper_call.result = 0

\* 01:02:05, the string for 3725 seconds, has been decoded to 0
C16_Witness ==
    /\ helper_call.fn = "decode_encode"
    /\ helper_call.seconds = 3725
    /\ helper_call.result = 0

\* C17: nothing carries over between searches: whenever the results of a run
\* have been applied, the table holds exactly the rows that run produced and
\* no row of an earlier run, after any sequence of searches, clears and
\* completions.
C17_NoCarryOver ==
    [][apply_search_results =>
          LET cb == Head(after_queue)
          IN  /\ Len(tree') = Len(cb.rows)
              /\ \A i \in 1..Len(tree') : tree'[i].run = cb.run
              /\ \A n \in 1..Len(cb.rows) :
                     \E i \in 1..Len(tree') : tree'[i] = cb.rows[n]]_vars

\* the positions of the rows of run that stand for the video with identifier id
VideoRowsOf(run, id) ==
    {i \in 1..Len(run.rows) : run.rows[i].url = <<"https://youtu.be/", id>>}

\* the view floor and the duration bucket of the options let a video with no
\* views and no seconds through
AcceptsZero(opts) ==
    opts.min_views_value = 0 /\ opts.duration_value \in {"any", "short"}

\* the run ended with its rows and holds a video candidate at position n of
\* total_items whose identifier no enrichment response has covered
Unenriched(run, n) ==
    /\ run.pc = "done" /\ run.result = "rows"
    /\ run.total_items[n].kind = "video"
    /\ run.total_items[n].id \notin DOMAIN run.details

\* C18: a retained video candidate whose identifier is absent from the merged
\* enrichment mapping, all enrichment calls having succeeded, counts as having
\* 0 views and 0 seconds: it is emitted, with zero-valued display stats and
\* its search-result title, exactly when the minimum-view threshold is 0 and
\* the duration bucket accepts 0 seconds, and is dropped otherwise.
C18_UnenrichedVideoCountsAsZero ==
    \A r \in RunIds :
        \A n \in 1..Len(runs[r].total_items) :
            Unenriched(runs[r], n) =>
                LET run == runs[r]
                    x == run.total_items[n]
                    same == {k \in 1..Len(run.total_items) :
                                run.total_items[k].kind = "video"
                                /\ run.total_items[k].id = x.id}
                IN  IF AcceptsZero(run.opts)
                    THEN /\ Cardinality(VideoRowsOf(run, x.id)) = Cardinality(same)
                         /\ \A i \in VideoRowsOf(run, x.id) :
                                /\ run.rows[i].views = <<"0">>
                                /\ run.rows[i].likes = <<"0">>
                                /\ run.rows[i].comments = <<"0">>
                                /\ run.rows[i].duration = <<"0", "0", ":", "0", "0">>
                                /\ run.rows[i].title = x.title
                                /\ run.rows[i].channel = x.channel_title
                    ELSE VideoRowsOf(run, x.id) = {}

\* a run whose options accept a video without views and seconds has emitted
\* the row of a video no enrichment response covered, next to the row of a
\* video with a record
C18_Witness ==
    \E r \in RunIds :
        /\ AcceptsZero(runs[r].opts)
        /\ \E n, k \in 1..Len(runs[r].total_items) :
               /\ Unenriched(runs[r], n)
               /\ VideoRowsOf(runs[r], runs[r].total_items[n].id) # {}
               /\ runs[r].total_items[k].kind = "video"
               /\ runs[r].total_items[k].id \in DOMAIN runs[r].details

\* C19: every search that on_search starts completes and re-enables the
\* Search control: when each network call returns or fails and the event
\* loop runs the scheduled callbacks, a Search button that is disabled is
\* eventually enabled again, whether the run succeeds or fails.
C19_SearchControlReenabled ==
    (btn_search = "disabled") ~> (btn_search = "normal")

\* a run that failed and a run that succeeded have both had their callback
\* run, and the Search button is enabled
C19_Witness ==
    /\ btn_search = "normal"
    /\ \E r \in RunIds : runs[r].delivered /\ runs[r].result = "error"
    /\ \E r \in RunIds : runs[r].delivered /\ runs[r].result = "rows"

\* C20: once on_clear has emptied the results table, the table stays empty
\* until the user next invokes on_search, also when Clear is invoked while a
\* run is in flight.
C20_ClearedStaysEmpty ==
    cleared => tree = <<>>

====
